---- MODULE Spec2Model ----
(***************************************************************************)
(* EthContext (the EVM chain context of the wormhole-connect SDK): the     *)
(* approve / send / sendWithPayload / sendWithRelay / redeem pipelines and *)
(* the asset look-ups, as a state machine over the network round trips     *)
(* (the awaits) of each asynchronous method.  One action is one round trip *)
(* together with the synchronous code that follows it up to the next one.  *)
(***************************************************************************)
EXTENDS Integers, Sequences, FiniteSets, TLC

\* ---------------------------------------------------------------- bounds
\* largest token amount a caller passes
MaxAmount == 2
\* number of SDK calls made one after the other in a run
MaxCalls == 2

\* constants.MaxUint256, scaled: the top of the allowance range, above
\* every amount a caller passes
MaxUint256 == MaxAmount + 1

\* ---------------------------------------------------------- chains, tokens
Procs == {"p1", "p2"}
Caller == "p1"

ChainNames == {"ethereum", "bsc", "solana"}
ChainIdOf == [ethereum |-> 2, bsc |-> 4, solana |-> 1]
ChainIds == {ChainIdOf[n] : n \in ChainNames}

\* ChainName | ChainId: a chain reference is a symbolic name or a numeric id
ByName(n) == [kind |-> "name", name |-> n, id |-> 0]
ById(i) == [kind |-> "id", name |-> "", id |-> i]
RefsOf(n) == {ByName(n), ById(ChainIdOf[n])}

toChainId(ref) ==
    IF ref.kind = "id" THEN ref.id ELSE ChainIdOf[ref.name]

toChainName(ref) ==
    IF ref.kind = "name" THEN ref.name
    ELSE CHOOSE n \in ChainNames : ChainIdOf[n] = ref.id

NATIVE == [chain |-> "none", address |-> "native"]
AddressZero == "0x0"

\* the tokens of the runs: one native to the sending chain, one bridged to
\* it from bsc, one of bsc never bridged to it
TokE == [chain |-> "ethereum", address |-> "0xE1"]
TokB == [chain |-> "bsc", address |-> "0xB1"]
TokU == [chain |-> "bsc", address |-> "0xB2"]
TokenIds == {TokE, TokB, TokU}

\* tokenBridge.wrappedAsset(chainId, address) on a chain: the wrapped
\* representation registered there, or the zero address
wrappedAsset(onChain, chainId, addr) ==
    IF onChain = "ethereum" /\ chainId = ChainIdOf["bsc"] /\ addr = "0xB1"
        THEN "0xW1"
    ELSE IF onChain = "bsc" /\ chainId = ChainIdOf["ethereum"] /\ addr = "0xE1"
        THEN "0xW2"
    ELSE AddressZero

\* token contracts whose allowance and balance the runs touch
TokenAddrs == {"0xE1", "0xW1"}
Assets == TokenAddrs \cup {"native"}
Spenders == {"bridge", "relayer"}

\* signed attestations: the hash covers the body, the signatures may be bad
Vaas == {[body |-> 1, valid |-> TRUE], [body |-> 1, valid |-> FALSE],
         [body |-> 2, valid |-> TRUE]}
NoVaa == [body |-> 0, valid |-> FALSE]
VaaHash(v) == v.body

\* ------------------------------------------------------------- BigNumberish
\* an optional amount as JavaScript sees it: omitted, a number, a BigNumber
Omitted == [kind |-> "omitted", val |-> 0]
Num(n) == [kind |-> "number", val |-> n]
BN(n) == [kind |-> "BigNumber", val |-> n]
AmountArgs == {Omitted} \cup {Num(n) : n \in 0..MaxAmount}
                        \cup {BN(n) : n \in 0..MaxAmount}

\* JavaScript truthiness: undefined and the number 0 are falsy, an object
\* (a BigNumber, also of value zero) is truthy
Truthy(a) ==
    \/ a.kind = "BigNumber"
    \/ a.kind = "number" /\ a.val # 0

\* an amount passed as a decimal string (send, sendWithRelay, ...)
Str(n) == [kind |-> "string", val |-> n]
\* ethers.BigNumber.from(amount)
BigNumberFrom(x) == BN(x.val)

\* ------------------------------------------------------------------- state
VARIABLES
    hasSigner,   \* context.getSigner(chain) yields a signer
    allowance,   \* token contract -> spender -> allowance granted by the signer
    balance,     \* asset -> balance of the signer
    processed,   \* attestation hash -> times the bridge completed it
    calls,       \* SDK calls started so far
    prev,        \* summary of the call that ended before the current one
    pc,          \* per caller: the round trip it is about to make
    args,        \* per caller: the method called and its arguments
    stage,       \* per caller: "outer" (send*), "prepare" (prepareSend*)
    tokenAddr,   \* per caller: the resolved token address
    approved,    \* per caller: the allowance read by approve
    tx,          \* per caller: the populated transaction
    trace,       \* per caller: the round trips of the current call, in order
    result,      \* per caller: how the current call ended
    snap         \* per caller: chain state when the current call began

\* --------------------------------------------- parseMessageFromTx: data
\* most logs in a receipt
MaxLogs == 2
\* largest gas figure of a receipt
MaxGas == 2

\* bytes of an EVM address (ethers getAddress) and of a canonical address
AddrBytes == 20
CanonBytes == 32

Rep(n, b) == [i \in 1..n |-> b]

\* utils.zeroPad(value, length); longer values are rejected
zeroPad(value, length) ==
    IF Len(value) > length THEN [ok |-> FALSE, bytes |-> <<>>]
    ELSE [ok |-> TRUE, bytes |-> Rep(length - Len(value), 0) \o value]

RECURSIVE stripZeros(_)
\* utils.stripZeros(value): every leading zero byte is dropped
stripZeros(value) ==
    IF value # <<>> /\ Head(value) = 0 THEN stripZeros(Tail(value))
    ELSE value

NoAddr == [fmt |-> "none", bytes |-> <<>>]

\* utils.getAddress(hex): an address has exactly 20 bytes
getAddress(bytes) ==
    IF Len(bytes) = AddrBytes
        THEN [ok |-> TRUE, addr |-> [fmt |-> "Ethereum", bytes |-> bytes]]
    ELSE [ok |-> FALSE, addr |-> NoAddr]

\* EthContext.formatAddress(address)
formatAddress(address) == zeroPad(address, CanonBytes)

\* EthContext.parseAddress(address)
parseAddress(address) == getAddress(stripZeros(address))

\* context.getContext(chain).type for a chain id of a payload
ContextOf(chainId) ==
    CASE chainId \in {ChainIdOf["ethereum"], ChainIdOf["bsc"]} -> "Ethereum"
      [] chainId = ChainIdOf["solana"] -> "Solana"
      [] OTHER -> "unknown"

\* parseAddress / parseAssetAddress of the context of a kind: the EVM one
\* above; the Solana one renders all 32 bytes
ParseAddressBy(ctx, bytes) ==
    IF ctx = "Ethereum" THEN parseAddress(bytes)
    ELSE [ok |-> TRUE, addr |-> [fmt |-> ctx, bytes |-> bytes]]

\* destContext.parseRelayerPayload(payload): the fields as the context of
\* that kind reads them
ParseRelayerPayloadBy(ctx, trailing) ==
    [by |-> ctx, relayerPayloadId |-> trailing.id, to |-> trailing.to,
     relayerFee |-> trailing.fee, toNativeTokenAmount |-> trailing.native]

\* addresses on the wire
EvmA == Rep(AddrBytes, 1)
EvmB == Rep(AddrBytes, 3)
EvmLeadZero == <<0>> \o Rep(AddrBytes - 1, 1)
SolA == Rep(CanonBytes, 2)
SolLeadZero == <<0>> \o Rep(CanonBytes - 1, 2)

\* the trailing bytes of a transfer-with-payload: a relayer payload
Trailing(i, to, fee, native) ==
    [id |-> i, to |-> to, fee |-> fee, native |-> native]
NoTrailing == Trailing(0, <<>>, 0, 0)

\* a token bridge payload: discriminant, amount, token address and chain,
\* recipient address and chain, trailing bytes
Payload(d, amt, tokAddr, tokChain, to, toChain, trailing) ==
    [payloadID |-> d, amount |-> amt, tokenAddress |-> tokAddr,
     tokenChain |-> tokChain, to |-> to, toChain |-> toChain,
     payload |-> trailing]

\* a log of a receipt: emitting contract, whether it is an event of the
\* core interface with a payload, sequence, payload
RLog(addr, wellFormed, seq, pl) ==
    [address |-> addr, wellFormed |-> wellFormed, sequence |-> seq,
     payload |-> pl]

EthId == ChainIdOf["ethereum"]
SolId == ChainIdOf["solana"]
RelayerToEth == Trailing(1, formatAddress(EvmB).bytes, 1, 2)
RelayerToSol == Trailing(1, SolLeadZero, 2, 1)

LogMenu == {
    \* a basic transfer of an EVM token to Solana
    RLog("core", TRUE, 1,
         Payload(1, 5, formatAddress(EvmA).bytes, EthId, SolA, SolId,
                 NoTrailing)),
    \* a relayed transfer of a Solana token to an EVM chain
    RLog("core", TRUE, 2,
         Payload(3, 6, SolLeadZero, SolId, formatAddress(EvmA).bytes, EthId,
                 RelayerToEth)),
    \* a relayed transfer of an EVM token to Solana
    RLog("core", TRUE, 8,
         Payload(3, 3, formatAddress(EvmB).bytes, EthId, SolA, SolId,
                 RelayerToSol)),
    \* a relayed transfer with a discriminant that is neither 1 nor 3
    RLog("core", TRUE, 3,
         Payload(2, 7, SolLeadZero, SolId, formatAddress(EvmA).bytes, EthId,
                 RelayerToEth)),
    \* a log of another contract
    RLog("other", TRUE, 4,
         Payload(1, 8, formatAddress(EvmA).bytes, EthId, SolA, SolId,
                 NoTrailing)),
    \* a basic transfer of an EVM token whose address begins with a zero byte
    RLog("core", TRUE, 5,
         Payload(1, 9, formatAddress(EvmLeadZero).bytes, EthId, SolA, SolId,
                 NoTrailing)),
    \* a core log that is no published message
    RLog("core", FALSE, 6,
         Payload(1, 0, formatAddress(EvmA).bytes, EthId, SolA, SolId,
                 NoTrailing)),
    \* a basic transfer to a chain the configuration does not know
    RLog("core", TRUE, 7,
         Payload(1, 4, formatAddress(EvmA).bytes, EthId, SolA, 99,
                 NoTrailing)) }

RECURSIVE SeqsUpTo(_, _)
\* the sequences over S of length at most n
SeqsUpTo(S, n) ==
    IF n = 0 THEN {<<>>}
    ELSE LET shorter == SeqsUpTo(S, n - 1)
         IN shorter \cup {Append(q, x) : q \in shorter, x \in S}

GasValues == {Omitted, BN(0), BN(MaxGas)}

\* provider.getTransactionReceipt(tx): null, or the receipt
NoReceipt == [found |-> FALSE, logs |-> <<>>, gasUsed |-> Omitted,
              effectiveGasPrice |-> Omitted]
Receipts ==
    {NoReceipt} \cup
    {[found |-> TRUE, logs |-> ls, gasUsed |-> g, effectiveGasPrice |-> e] :
        ls \in SeqsUpTo(LogMenu, MaxLogs), g \in GasValues, e \in GasValues}

\* a ParsedMessage (kind basic) or ParsedRelayerMessage (kind relayer);
\* the fields a kind does not have are absent
Absent == [fmt |-> "absent", bytes |-> <<>>]
Msg(kind, log, tokAddr, recipient, to, rp, gf, from) ==
    [kind |-> kind,
     amount |-> BN(log.payload.amount),
     payloadID |-> log.payload.payloadID,
     recipient |-> recipient,
     to |-> to,
     toChain |-> toChainName(ById(log.payload.toChain)),
     fromChain |-> from,
     tokenAddress |-> tokAddr,
     tokenChain |-> toChainName(ById(log.payload.tokenChain)),
     tokenId |-> [chain |-> toChainName(ById(log.payload.tokenChain)),
                  address |-> tokAddr],
     sequence |-> log.sequence,
     gasFee |-> gf,
     payload |-> IF kind = "relayer" THEN log.payload.payload ELSE NoTrailing,
     relayer |-> rp]
NoRelayer == [by |-> "none", relayerPayloadId |-> 0, to |-> <<>>,
              relayerFee |-> 0, toNativeTokenAmount |-> 0]
NoMsg == [kind |-> "none", amount |-> Omitted, payloadID |-> 0,
          recipient |-> Absent, to |-> Absent, toChain |-> "", fromChain |-> "",
          tokenAddress |-> Absent, tokenChain |-> "",
          tokenId |-> [chain |-> "", address |-> Absent], sequence |-> 0,
          gasFee |-> Omitted, payload |-> NoTrailing, relayer |-> NoRelayer]

\* how parseMessageFromTx ended: not yet, with the messages, with an error
NoParse == [status |-> "none", err |-> "", msgs |-> <<>>]
Parsed(ms) == [status |-> "ok", err |-> "", msgs |-> ms]
ParseErr(e) == [status |-> "error", err |-> e, msgs |-> <<>>]

VARIABLES
    receipt,     \* what the provider holds for the transaction hash
    pchain,      \* the chain argument of parseMessageFromTx
    ppc,         \* idle, receipt (lookup awaited), decoding, done
    gasFee,      \* the gas fee computed from the receipt
    task,        \* per core log: the state of its asynchronous decoding
    order,       \* the log indices in the order their decodings settled
    ptrace,      \* the round trips of the parse call, in order
    presult      \* how the parse call ended

parseVars == <<receipt, pchain, ppc, gasFee, task, order, ptrace, presult>>

pipeVars == <<hasSigner, allowance, balance, processed, calls, prev, pc, args,
              stage, tokenAddr, approved, tx, trace, result, snap>>

\* ------------------------------- address round trip and FromInputs: state
VARIABLES
    aIn,         \* the native address handed to formatAddress
    aCanon,      \* what formatAddress gave
    aOut,        \* what parseAddress gave for it
    apc          \* start, formatted, parsed

addrVars == <<aIn, aCanon, aOut, apc>>

VARIABLES
    fromSelection,  \* the selected network, token and wallet address
    selects,        \* how many selections were made
    balReqs,        \* the balance requests not yet answered
    uiBalance,      \* the balance the component shows
    storeBalance,   \* the balance in the store
    uiAmount,       \* the send amount in the store
    edits,          \* how many amounts were entered
    rxReqs,         \* the computeReceiveAmount calls not yet answered
    receiveAmount   \* the receive amount in the store

VARIABLES
    psIn,        \* the arguments of a prepareSend call, token resolved
    psSim,       \* the dry-run call it made
    psTx,        \* the transaction it populated
    pspc         \* start, simulated, done, failed

prepVars == <<psIn, psSim, psTx, pspc>>

balVars == <<fromSelection, selects, balReqs, uiBalance, storeBalance>>
amtVars == <<uiAmount, edits, rxReqs, receiveAmount>>
sideVars == <<addrVars, prepVars, balVars, amtVars>>

vars == <<hasSigner, allowance, balance, processed, calls, prev, pc, args,
          stage, tokenAddr, approved, tx, trace, result, snap, parseVars,
          sideVars>>

chainVars == <<allowance, balance, processed>>

\* a contract call: method, contract, token address, amount, attestation
Call(c, to, tok, amt, v) ==
    [call |-> c, to |-> to, token |-> tok, amt |-> amt, vaa |-> v]
NoTx == Call("none", "none", "-", 0, NoVaa)
\* a round trip: kind is query, sim (dry-run passed), simfail (dry-run
\* reverted), tx (transaction sent), wait (transaction confirmed)
Ev(k, t) == [kind |-> k, call |-> t.call, to |-> t.to, token |-> t.token,
             amt |-> t.amt, vaa |-> t.vaa]

NoRes == [status |-> "none", err |-> "", val |-> ""]
Ok(v) == [status |-> "ok", err |-> "", val |-> v]
Err(e) == [status |-> "error", err |-> e, val |-> ""]

NoArgs == [op |-> "none", token |-> NATIVE, amount |-> Omitted,
           chain |-> ByName("ethereum"), recipient |-> "bsc",
           spender |-> "bridge", tokenAddr |-> "-", vaa |-> NoVaa]
NoPrev == [args |-> NoArgs, ok |-> FALSE, approveTxs |-> 0, allowance0 |-> 0]

\* ------------------------------------------------- contracts (environment)
TransferCalls == {"transferTokens", "transferTokensWithPayload",
                  "transferTokensWithRelay"}
WrapCalls == {"wrapAndTransferETH", "wrapAndTransferETHWithPayload",
              "wrapAndTransferEthWithRelay"}

\* whether the contract executes the call in the current chain state
Accepts(t) ==
    CASE t.call \in TransferCalls ->
            /\ allowance[t.token][t.to] >= t.amt
            /\ balance[t.token] >= t.amt
      [] t.call \in WrapCalls -> balance["native"] >= t.amt
      [] t.call = "completeTransfer" ->
            t.vaa.valid /\ processed[VaaHash(t.vaa)] = 0
      [] OTHER -> TRUE

\* the chain state after the contract executed the call
Executed(t) ==
    CASE t.call \in TransferCalls ->
            /\ allowance' = [allowance EXCEPT ![t.token][t.to] = @ - t.amt]
            /\ balance' = [balance EXCEPT ![t.token] = @ - t.amt]
            /\ UNCHANGED processed
      [] t.call \in WrapCalls ->
            /\ balance' = [balance EXCEPT !["native"] = @ - t.amt]
            /\ UNCHANGED <<allowance, processed>>
      [] t.call = "completeTransfer" ->
            /\ processed' = [processed EXCEPT ![VaaHash(t.vaa)] = @ + 1]
            /\ UNCHANGED <<allowance, balance>>
      [] t.call = "approve" ->
            /\ allowance' = [allowance EXCEPT ![t.token][t.to] = t.amt]
            /\ UNCHANGED <<balance, processed>>
      [] OTHER -> UNCHANGED chainVars

\* ------------------------------------------------------ synchronous code
\* where a caller stands after a stretch of synchronous code: the next
\* round trip (or "done"), the stage, the resolved token address, the
\* populated transaction and the result
Cont(nextPc, stg, addr, t, res) ==
    [pc |-> nextPc, stage |-> stg, addr |-> addr, tx |-> t, res |-> res]
Return(addr, t, v) == Cont("done", "-", addr, t, Ok(v))
Throw(addr, t, e) == Cont("done", "-", addr, t, Err(e))

\* a sendWithRelay that grants the allowance to the token bridge
ApproveSpenderBridge(a) ==
    IF a.op = "approve" THEN a.spender ELSE "bridge"

\* the contract the allowance is granted to
ApproveSpender(a) ==
    CASE a.op = "approve" -> a.spender
      [] a.op = "sendWithRelay" -> "relayer"
      [] OTHER -> "bridge"

\* the amount argument approve is called with
ApproveArg(a) ==
    IF a.op = "approve" THEN a.amount ELSE BigNumberFrom(a.amount)

\* an approve that never falls back to the maximum
approveAmountNoDefault(amount) == amount.val

\* const approveAmount = amount || constants.MaxUint256
approveAmount(amount) ==
    IF Truthy(amount) THEN amount.val ELSE MaxUint256

\* an approve that does not look at the allowance
NeedsApprovalAlways(approvedNow, target) == TRUE

\* an approve that compares with lte
NeedsApprovalLte(approvedNow, target) == approvedNow <= target

\* approved.lt(approveAmount)
NeedsApproval(approvedNow, target) == approvedNow < target

\* the transactions the methods populate
TransferTx(a, addr) ==
    Call("transferTokens", "bridge", addr, a.amount.val, NoVaa)
WrapTx(a) ==
    Call("wrapAndTransferETH", "bridge", "native", a.amount.val, NoVaa)
PayloadTx(a, addr) ==
    Call("transferTokensWithPayload", "bridge", addr, a.amount.val, NoVaa)
WrapPayloadTx(a) ==
    Call("wrapAndTransferETHWithPayload", "bridge", "native", a.amount.val,
         NoVaa)
RelayTx(a, addr) ==
    Call("transferTokensWithRelay", "relayer", addr, a.amount.val, NoVaa)
WrapRelayTx(a) ==
    Call("wrapAndTransferEthWithRelay", "relayer", "native", a.amount.val,
         NoVaa)
RedeemTx(a) == Call("completeTransfer", "bridge", "-", 0, a.vaa)
ApproveTx(a, addr) ==
    Call("approve", ApproveSpender(a), addr, approveAmount(ApproveArg(a)),
         NoVaa)

\* approve, up to its allowance query: the signer check
EnterApprove(a, stg, addr) ==
    IF ~hasSigner THEN Throw(addr, NoTx, "NoSigner")
    ELSE Cont("allowance", stg, addr, NoTx, NoRes)

\* the code after getForeignAsset / mustGetForeignAsset returned addr
AfterResolve(a, stg, addr) ==
    CASE a.op \in {"getForeignAsset", "mustGetForeignAsset"} ->
            Return(addr, NoTx, addr)
      [] a.op = "getTokenBalance" ->
            Cont("balanceOf", stg, addr, NoTx, NoRes)
      [] a.op = "getRelayerFee" -> Cont("decimals", stg, addr, NoTx, NoRes)
      [] a.op \in {"calculateMaxSwapAmount", "calculateNativeTokenAmt"} ->
            Cont("relayerQuery", stg, addr, NoTx, NoRes)
      [] stg = "outer" -> EnterApprove(a, stg, addr)
      [] stg = "prepare" /\ a.op \in {"send", "prepareSend"} ->
            Cont("simulate", stg, addr, TransferTx(a, addr), NoRes)
      [] stg = "prepare" /\ a.op = "prepareSendWithRelay" ->
            Return(addr, RelayTx(a, addr), "tx")
      [] stg = "prepare" /\ a.op = "sendWithRelay" ->
            Cont("submit", stg, addr, RelayTx(a, addr), NoRes)

\* a mustGetForeignAsset that does not throw
AfterUnregisteredNoThrow(a, stg) == Return("-", NoTx, "null")

\* a getTokenBalance that insists on the asset
AfterUnregisteredMust(a, stg) ==
    IF a.op = "getForeignAsset" THEN Return("-", NoTx, "null")
    ELSE Throw("-", NoTx, "token not registered")

\* the code after the bridge reported the zero address: getForeignAsset
\* returns null, which getTokenBalance returns too and which
\* mustGetForeignAsset turns into an error
AfterUnregistered(a, stg) ==
    IF a.op \in {"getForeignAsset", "getTokenBalance"}
        THEN Return("-", NoTx, "null")
    ELSE Throw("-", NoTx, "token not registered")

\* a getForeignAsset that compares the chain references as given
ResolveUncoalesced(a, stg) ==
    IF a.chain = ByName(a.token.chain)
        THEN AfterResolve(a, stg, a.token.address)
    ELSE Cont("wrappedAsset", stg, "-", NoTx, NoRes)

\* getForeignAsset, up to its bridge query: the home-chain short cut
Resolve(a, stg) ==
    IF toChainId(a.chain) = toChainId(ByName(a.token.chain))
        THEN AfterResolve(a, stg, a.token.address)
    ELSE Cont("wrappedAsset", stg, "-", NoTx, NoRes)

\* a prepareSend whose native branch populates without a dry-run
PrepareSendBodyNoDryRun(a) ==
    IF a.token = NATIVE
        THEN Cont("submit", "prepare", "-", WrapTx(a), NoRes)
    ELSE Resolve(a, "prepare")

\* prepareSend from the native / ERC-20 branch on
PrepareSendBody(a) ==
    IF a.token = NATIVE
        THEN Cont("simulate", "prepare", "-", WrapTx(a), NoRes)
    ELSE Resolve(a, "prepare")

\* prepareSend, up to its first round trip
EnterPrepareSend(a) ==
    IF toChainId(ByName(a.recipient)) = 1
        THEN IF a.token = NATIVE
                THEN Cont("weth", "prepare", "-", NoTx, NoRes)
             ELSE Cont("ata", "prepare", "-", NoTx, NoRes)
    ELSE PrepareSendBody(a)

\* prepareSendWithRelay, up to its first round trip
EnterPrepareSendWithRelay(a) ==
    IF a.token = NATIVE
        THEN IF a.op = "prepareSendWithRelay"
                THEN Return("-", WrapRelayTx(a), "tx")
             ELSE Cont("submit", "prepare", "-", WrapRelayTx(a), NoRes)
    ELSE Resolve(a, "prepare")

\* the code after approve returned
AfterApprove(a, addr) ==
    CASE a.op = "approve" -> Return(addr, NoTx, "void")
      [] a.op = "send" -> EnterPrepareSend(a)
      [] a.op = "sendWithPayload" ->
            Cont("submit", "outer", addr, PayloadTx(a, addr), NoRes)
      [] a.op = "sendWithRelay" -> EnterPrepareSendWithRelay(a)

\* a prepare method that goes on to submit what it built
AfterSimulateSubmits(a, addr, t) == Cont("submit", "prepare", addr, t, NoRes)

\* the code after the dry-run passed: the transaction is populated
AfterSimulate(a, addr, t) ==
    IF a.op \in {"prepareSend", "prepareRedeem"}
        THEN Return(addr, t, "tx")
    ELSE Cont("submit", "prepare", addr, t, NoRes)

\* prepareRedeem, up to its dry-run
EnterPrepareRedeem(a) ==
    Cont("simulate", "prepare", "-", RedeemTx(a), NoRes)

\* a redeem that sends the completion without preparing it
EnterRedeemDirect(a) ==
    IF ~hasSigner THEN Throw("-", NoTx, "NoSigner")
    ELSE Cont("submit", "prepare", "-", RedeemTx(a), NoRes)

\* redeem, up to its first round trip
EnterRedeem(a) ==
    IF ~hasSigner THEN Throw("-", NoTx, "NoSigner")
    ELSE EnterPrepareRedeem(a)

\* a method from its entry to its first round trip
Enter(a) ==
    CASE a.op = "approve" -> EnterApprove(a, "outer", a.tokenAddr)
      [] a.op \in {"send", "sendWithRelay"} ->
            IF ~hasSigner THEN Throw("-", NoTx, "NoSigner")
            ELSE IF a.token # NATIVE THEN Resolve(a, "outer")
            ELSE IF a.op = "send" THEN EnterPrepareSend(a)
            ELSE EnterPrepareSendWithRelay(a)
      [] a.op = "sendWithPayload" ->
            IF a.token = NATIVE
                THEN IF ~hasSigner
                        THEN Throw("-", NoTx, "UnsupportedOperation")
                     ELSE Cont("submit", "outer", "-", WrapPayloadTx(a),
                               NoRes)
            ELSE Resolve(a, "outer")
      [] a.op = "prepareSend" -> EnterPrepareSend(a)
      [] a.op = "prepareSendWithRelay" -> EnterPrepareSendWithRelay(a)
      [] a.op = "redeem" -> EnterRedeem(a)
      [] a.op = "prepareRedeem" -> EnterPrepareRedeem(a)
      [] a.op \in {"getForeignAsset", "mustGetForeignAsset",
                   "getTokenBalance", "getRelayerFee",
                   "calculateMaxSwapAmount", "calculateNativeTokenAmt"} ->
            Resolve(a, "outer")
      [] a.op = "isTransferCompleted" ->
            Cont("isCompleted", "outer", "-", NoTx, NoRes)

\* ------------------------------------------------------------- the calls
SendArgs(op, recipients) ==
    {[NoArgs EXCEPT !.op = op, !.token = t, !.amount = Str(n), !.chain = c,
                    !.recipient = r] :
        t \in {NATIVE} \cup TokenIds, n \in 0..MaxAmount,
        c \in {ByName("ethereum")}, r \in recipients}

ApproveArgs ==
    {[NoArgs EXCEPT !.op = "approve", !.spender = s, !.tokenAddr = "0xE1",
                    !.amount = m] : s \in Spenders, m \in AmountArgs}

RedeemArgs(op) == {[NoArgs EXCEPT !.op = op, !.vaa = v] : v \in Vaas}

AssetArgs(op) ==
    {[NoArgs EXCEPT !.op = op, !.token = t, !.chain = c] :
        t \in TokenIds, c \in RefsOf("ethereum") \cup RefsOf("bsc")}

\* look-ups on the sending chain: getTokenBalance, getRelayerFee and the
\* swap-amount queries
LookupArgs(op) ==
    {[NoArgs EXCEPT !.op = op, !.token = t] : t \in TokenIds}

CallSet ==
    ApproveArgs
        \cup LookupArgs("getTokenBalance")
        \cup LookupArgs("getRelayerFee")
        \cup LookupArgs("calculateMaxSwapAmount")
        \cup LookupArgs("calculateNativeTokenAmt")
        \cup SendArgs("send", {"bsc", "solana"})
        \cup SendArgs("prepareSend", {"bsc", "solana"})
        \cup SendArgs("sendWithPayload", {"bsc"})
        \cup SendArgs("sendWithRelay", {"bsc"})
        \cup SendArgs("prepareSendWithRelay", {"bsc"})
        \cup RedeemArgs("redeem") \cup RedeemArgs("prepareRedeem")
        \cup RedeemArgs("isTransferCompleted")
        \cup AssetArgs("getForeignAsset")
        \cup AssetArgs("mustGetForeignAsset")

RoundTrips == {"wrappedAsset", "allowance", "approveTx", "approveWait",
               "weth", "ata", "simulate", "submit", "wait", "isCompleted",
               "balanceOf", "decimals", "relayerQuery"}

\* ----------------------------------------------------------------- actions
InitPipe ==
    /\ hasSigner \in BOOLEAN
    /\ allowance = [t \in TokenAddrs |-> [s \in Spenders |-> 0]]
    /\ \E b \in 0..MaxAmount : balance = [x \in Assets |-> b]
    /\ processed = [h \in {VaaHash(v) : v \in Vaas} |-> 0]
    /\ calls = 0
    /\ prev = NoPrev
    /\ pc = [p \in Procs |-> "idle"]
    /\ args = [p \in Procs |-> NoArgs]
    /\ stage = [p \in Procs |-> "-"]
    /\ tokenAddr = [p \in Procs |-> "-"]
    /\ approved = [p \in Procs |-> 0]
    /\ tx = [p \in Procs |-> NoTx]
    /\ trace = [p \in Procs |-> <<>>]
    /\ result = [p \in Procs |-> NoRes]
    /\ snap = [p \in Procs |-> [allowance |-> allowance,
                                processed |-> processed]]

\* no parseMessageFromTx call is made
InitNoParse ==
    /\ receipt = NoReceipt
    /\ pchain = ByName("ethereum")
    /\ ppc = "idle"
    /\ gasFee = Omitted
    /\ task = <<>>
    /\ order = <<>>
    /\ ptrace = <<>>
    /\ presult = NoParse

\* neither an address conversion nor the FromInputs component is running
NoSelection == [network |-> "", token |-> "", wallet |-> ""]
\* a balance as the component holds it: the text, and the selection it
\* was written for
Balance(sel, text) == [for |-> sel, text |-> text]
NoBalance == Balance(NoSelection, "undefined")
\* an amount of the store: none yet, or the number entered
NoAmount == [entered |-> FALSE, val |-> 0]
Amount(n) == [entered |-> TRUE, val |-> n]
\* the receive amount of the store and the send amount it was computed for
Receive(amt, n) == [for |-> amt, val |-> n]
NoReceive == Receive(NoAmount, 0)
InitNoAddr ==
    /\ aIn = <<>>
    /\ aCanon = [ok |-> FALSE, bytes |-> <<>>]
    /\ aOut = [ok |-> FALSE, addr |-> NoAddr]
    /\ apc = "start"
\* the arguments of a bridge transfer call: token address (none for the
\* native method), amount or value, recipient chain id, formatted
\* recipient, relayer fee, nonce
BridgeCall(method, tok, amt, chainId, recipient, fee, nonce) ==
    [method |-> method, token |-> tok, amount |-> amt, chainId |-> chainId,
     recipient |-> recipient, fee |-> fee, nonce |-> nonce]
NoBridgeCall == BridgeCall("none", "-", 0, 0, "-", 0, 0)
NoPrepareInput == [token |-> "-", amount |-> 0, chainId |-> 0,
                   recipient |-> "-", fee |-> 0]
InitNoPrepare ==
    /\ psIn = NoPrepareInput
    /\ psSim = NoBridgeCall
    /\ psTx = NoBridgeCall
    /\ pspc = "start"
InitNoBalance ==
    /\ fromSelection = NoSelection
    /\ selects = 0
    /\ balReqs = {}
    /\ uiBalance = NoBalance
    /\ storeBalance = NoBalance
InitNoAmount ==
    /\ uiAmount = NoAmount
    /\ edits = 0
    /\ rxReqs = {}
    /\ receiveAmount = NoReceive

InitNoSide == InitNoAddr /\ InitNoPrepare /\ InitNoBalance /\ InitNoAmount

Init == InitPipe /\ InitNoParse /\ InitNoSide

\* the caller moves on to where the synchronous code left it
Apply(p, k) ==
    /\ pc' = [pc EXCEPT ![p] = k.pc]
    /\ stage' = [stage EXCEPT ![p] = k.stage]
    /\ tokenAddr' = [tokenAddr EXCEPT ![p] = k.addr]
    /\ tx' = [tx EXCEPT ![p] = k.tx]
    /\ result' = [result EXCEPT ![p] = k.res]

Log(p, e) == trace' = [trace EXCEPT ![p] = Append(@, e)]

CountEv(tr, k, c) ==
    Cardinality({i \in 1..Len(tr) : tr[i].kind = k /\ tr[i].call = c})

\* what is kept of a call once the next one begins
Summary(p) ==
    IF args[p].op = "approve"
        THEN [args |-> args[p], ok |-> result[p].status = "ok",
              approveTxs |-> CountEv(trace[p], "tx", "approve"),
              allowance0 |->
                  snap[p].allowance[args[p].tokenAddr][args[p].spender]]
    ELSE NoPrev

\* a caller calls one of the methods S of the context
BeginFrom(p, S) ==
    /\ pc[p] = "idle"
    /\ calls < MaxCalls
    /\ \E a \in S :
        /\ args' = [args EXCEPT ![p] = a]
        /\ Apply(p, Enter(a))
    /\ calls' = calls + 1
    /\ snap' = [snap EXCEPT ![p] = [allowance |-> allowance,
                                    processed |-> processed]]
    /\ UNCHANGED <<parseVars, sideVars>>
    /\ UNCHANGED <<hasSigner, chainVars, prev, approved, trace>>

\* a caller calls a method of the context
Begin(p) == BeginFrom(p, CallSet)

\* the promise of the call is settled and its frame is gone
Settle(p) ==
    /\ pc[p] = "done"
    /\ prev' = Summary(p)
    /\ pc' = [pc EXCEPT ![p] = "idle"]
    /\ args' = [args EXCEPT ![p] = NoArgs]
    /\ stage' = [stage EXCEPT ![p] = "-"]
    /\ tokenAddr' = [tokenAddr EXCEPT ![p] = "-"]
    /\ approved' = [approved EXCEPT ![p] = 0]
    /\ tx' = [tx EXCEPT ![p] = NoTx]
    /\ trace' = [trace EXCEPT ![p] = <<>>]
    /\ result' = [result EXCEPT ![p] = NoRes]
    /\ snap' = [snap EXCEPT ![p] = [allowance |-> allowance,
                                    processed |-> processed]]
    /\ UNCHANGED <<parseVars, sideVars>>
    /\ UNCHANGED <<hasSigner, chainVars, calls>>

\* a getForeignAsset without the zero-address test
getForeignAssetResultUnchecked(foreignAddr) == foreignAddr

\* getForeignAsset: null for the zero address
getForeignAssetResult(foreignAddr) ==
    IF foreignAddr = AddressZero THEN "null" ELSE foreignAddr

\* await tokenBridge.wrappedAsset(chainId, tokenAddr)
QueryWrappedAsset(p) ==
    /\ pc[p] = "wrappedAsset"
    /\ LET a == args[p]
           addr == getForeignAssetResult(
                       wrappedAsset(toChainName(a.chain),
                                    toChainId(ByName(a.token.chain)),
                                    a.token.address))
       IN /\ Log(p, Ev("query", Call("wrappedAsset", "bridge",
                                     a.token.address, 0, NoVaa)))
          /\ Apply(p, IF addr # "null" THEN AfterResolve(a, stage[p], addr)
                      ELSE AfterUnregistered(a, stage[p]))
    /\ UNCHANGED <<parseVars, sideVars>>
    /\ UNCHANGED <<hasSigner, chainVars, calls, prev, args, approved, snap>>

\* await tokenImplementation.allowance(senderAddress, contractAddress)
QueryAllowance(p) ==
    /\ pc[p] = "allowance"
    /\ LET a == args[p]
           addr == tokenAddr[p]
           now == allowance[addr][ApproveSpender(a)]
       IN /\ approved' = [approved EXCEPT ![p] = now]
          /\ Log(p, Ev("query", Call("allowance", ApproveSpender(a), addr,
                                     0, NoVaa)))
          /\ Apply(p, IF NeedsApproval(now, approveAmount(ApproveArg(a)))
                          THEN Cont("approveTx", stage[p], addr,
                                    ApproveTx(a, addr), NoRes)
                      ELSE AfterApprove(a, addr))
    /\ UNCHANGED <<parseVars, sideVars>>
    /\ UNCHANGED <<hasSigner, chainVars, calls, prev, args, snap>>

\* await tokenImplementation.approve(contractAddress, approveAmount)
SubmitApprove(p) ==
    /\ pc[p] = "approveTx"
    /\ Log(p, Ev("tx", tx[p]))
    /\ pc' = [pc EXCEPT ![p] = "approveWait"]
    /\ UNCHANGED <<parseVars, sideVars>>
    /\ UNCHANGED <<hasSigner, chainVars, calls, prev, args, stage, tokenAddr,
                   approved, tx, result, snap>>

\* await tx.wait(): the approval is mined
ConfirmApprove(p) ==
    /\ pc[p] = "approveWait"
    /\ Executed(tx[p])
    /\ Log(p, Ev("wait", tx[p]))
    /\ Apply(p, AfterApprove(args[p], tokenAddr[p]))
    /\ UNCHANGED <<parseVars, sideVars>>
    /\ UNCHANGED <<hasSigner, calls, prev, args, approved, snap>>

\* await bridge.WETH()
QueryWETH(p) ==
    /\ pc[p] = "weth"
    /\ Log(p, Ev("query", Call("WETH", "bridge", "-", 0, NoVaa)))
    /\ pc' = [pc EXCEPT ![p] = "ata"]
    /\ UNCHANGED <<parseVars, sideVars>>
    /\ UNCHANGED <<hasSigner, chainVars, calls, prev, args, stage, tokenAddr,
                   approved, tx, result, snap>>

\* await destContext.getAssociatedTokenAddress(tokenId, recipientAddress)
QueryATA(p) ==
    /\ pc[p] = "ata"
    /\ Log(p, Ev("query", Call("getAssociatedTokenAddress", "solana", "-",
                               0, NoVaa)))
    /\ Apply(p, PrepareSendBody(args[p]))
    /\ UNCHANGED <<parseVars, sideVars>>
    /\ UNCHANGED <<hasSigner, chainVars, calls, prev, args, approved, snap>>

\* a dry-run whose rejection is not awaited
SimulateUnawaited(p) ==
    /\ pc[p] = "simulate"
    /\ Log(p, Ev(IF Accepts(tx[p]) THEN "sim" ELSE "simfail", tx[p]))
    /\ Apply(p, AfterSimulate(args[p], tokenAddr[p], tx[p]))
    /\ UNCHANGED <<parseVars, sideVars>>
    /\ UNCHANGED <<hasSigner, chainVars, calls, prev, args, approved, snap>>

\* await bridge.callStatic.<method>(...): the dry-run
Simulate(p) ==
    /\ pc[p] = "simulate"
    /\ IF Accepts(tx[p])
        THEN /\ Log(p, Ev("sim", tx[p]))
             /\ Apply(p, AfterSimulate(args[p], tokenAddr[p], tx[p]))
        ELSE /\ Log(p, Ev("simfail", tx[p]))
             /\ Apply(p, Throw(tokenAddr[p], NoTx, "SimulationFailed"))
    /\ UNCHANGED <<parseVars, sideVars>>
    /\ UNCHANGED <<hasSigner, chainVars, calls, prev, args, approved, snap>>

\* await signer.sendTransaction(tx) or the contract method itself
Submit(p) ==
    /\ pc[p] = "submit"
    /\ Log(p, Ev("tx", tx[p]))
    /\ pc' = [pc EXCEPT ![p] = "wait"]
    /\ UNCHANGED <<parseVars, sideVars>>
    /\ UNCHANGED <<hasSigner, chainVars, calls, prev, args, stage, tokenAddr,
                   approved, tx, result, snap>>

\* await v.wait(): the transaction is mined, or reverts
Confirm(p) ==
    /\ pc[p] = "wait"
    /\ IF Accepts(tx[p])
        THEN /\ Executed(tx[p])
             /\ Log(p, Ev("wait", tx[p]))
             /\ Apply(p, Return(tokenAddr[p], tx[p], "receipt"))
        ELSE /\ UNCHANGED chainVars
             /\ Log(p, Ev("reverted", tx[p]))
             /\ Apply(p, Throw(tokenAddr[p], tx[p], "Reverted"))
    /\ UNCHANGED <<parseVars, sideVars>>
    /\ UNCHANGED <<hasSigner, calls, prev, args, approved, snap>>

\* await tokenBridge.isTransferCompleted(hash)
QueryIsCompleted(p) ==
    /\ pc[p] = "isCompleted"
    /\ Log(p, Ev("query", Call("isTransferCompleted", "bridge", "-", 0,
                               args[p].vaa)))
    /\ Apply(p, Return("-", NoTx,
                       IF processed[VaaHash(args[p].vaa)] > 0
                           THEN "true" ELSE "false"))
    /\ UNCHANGED <<parseVars, sideVars>>
    /\ UNCHANGED <<hasSigner, chainVars, calls, prev, args, approved, snap>>

\* await token.balanceOf(walletAddr)
QueryBalanceOf(p) ==
    /\ pc[p] = "balanceOf"
    /\ Log(p, Ev("query", Call("balanceOf", "token", tokenAddr[p], 0, NoVaa)))
    /\ Apply(p, Return(tokenAddr[p], NoTx, ToString(balance[tokenAddr[p]])))
    /\ UNCHANGED <<parseVars, sideVars>>
    /\ UNCHANGED <<hasSigner, chainVars, calls, prev, args, approved, snap>>

\* await tokenContract.decimals()
QueryDecimals(p) ==
    /\ pc[p] = "decimals"
    /\ Log(p, Ev("query", Call("decimals", "token", tokenAddr[p], 0, NoVaa)))
    /\ pc' = [pc EXCEPT ![p] = "relayerQuery"]
    /\ UNCHANGED <<parseVars, sideVars>>
    /\ UNCHANGED <<hasSigner, chainVars, calls, prev, args, stage, tokenAddr,
                   approved, tx, result, snap>>

\* the relayer method a look-up asks
RelayerMethod(a) ==
    CASE a.op = "getRelayerFee" -> "calculateRelayerFee"
      [] a.op = "calculateMaxSwapAmount" -> "calculateMaxSwapAmountIn"
      [] OTHER -> "calculateNativeSwapAmountOut"

\* await relayer.calculateRelayerFee / calculateMaxSwapAmountIn /
\* calculateNativeSwapAmountOut
QueryRelayer(p) ==
    /\ pc[p] = "relayerQuery"
    /\ Log(p, Ev("query", Call(RelayerMethod(args[p]), "relayer",
                               tokenAddr[p], 0, NoVaa)))
    /\ Apply(p, Return(tokenAddr[p], NoTx, "quote"))
    /\ UNCHANGED <<parseVars, sideVars>>
    /\ UNCHANGED <<hasSigner, chainVars, calls, prev, args, approved, snap>>

\* a round trip that is asked again after it rejected
NetworkFailRetried(p) ==
    /\ pc[p] \in RoundTrips
    /\ Len(trace[p]) < 4
    /\ Log(p, Ev("failed", NoTx))
    /\ UNCHANGED <<parseVars, sideVars>>
    /\ UNCHANGED <<hasSigner, chainVars, calls, prev, args, approved, snap,
                   pc, stage, tokenAddr, tx, result>>

\* any awaited round trip may reject: the error leaves the method
NetworkFail(p) ==
    /\ pc[p] \in RoundTrips
    /\ Log(p, Ev("failed", NoTx))
    /\ Apply(p, Throw(tokenAddr[p], tx[p], "NetworkError"))
    /\ UNCHANGED <<parseVars, sideVars>>
    /\ UNCHANGED <<hasSigner, chainVars, calls, prev, args, approved, snap>>

Step(p) ==
    \/ Begin(p)
    \/ Settle(p)
    \/ QueryWrappedAsset(p)
    \/ QueryAllowance(p)
    \/ SubmitApprove(p)
    \/ ConfirmApprove(p)
    \/ QueryWETH(p)
    \/ QueryATA(p)
    \/ Simulate(p)
    \/ Submit(p)
    \/ Confirm(p)
    \/ QueryIsCompleted(p)
    \/ QueryBalanceOf(p)
    \/ QueryDecimals(p)
    \/ QueryRelayer(p)
    \/ NetworkFail(p)

\* one caller, awaiting each call before the next
Next == Step(Caller)

Spec == Init /\ [][Next]_vars

\* ------------------------------------------------ two callers, unserialized
\* sends of one token from one wallet
ConcurrentSends ==
    {a \in SendArgs("send", {"bsc"}) : a.token = TokB}

\* a caller calls send while another call may be under way
BeginSend(p) == BeginFrom(p, ConcurrentSends)

StepSend(p) ==
    \/ BeginSend(p)
    \/ Settle(p)
    \/ QueryWrappedAsset(p)
    \/ QueryAllowance(p)
    \/ SubmitApprove(p)
    \/ ConfirmApprove(p)
    \/ Simulate(p)
    \/ Submit(p)
    \/ Confirm(p)
    \/ NetworkFail(p)

InitConcurrent ==
    /\ Init
    /\ hasSigner

\* the calls run on one event loop and interleave at their awaits
NextConcurrent == \E p \in Procs : StepSend(p)

SpecConcurrent == InitConcurrent /\ [][NextConcurrent]_vars

\* ----------------------------------------- parseMessageFromTx: the code
\* gasUsed.mul(effectiveGasPrice) when both are truthy, undefined otherwise
GasFeeNumeric(r) ==
    IF r.gasUsed.val # 0 /\ r.effectiveGasPrice.val # 0
        THEN BN(r.gasUsed.val * r.effectiveGasPrice.val)
    ELSE Omitted
GasFeeOf(r) ==
    IF Truthy(r.gasUsed) /\ Truthy(r.effectiveGasPrice)
        THEN BN(r.gasUsed.val * r.effectiveGasPrice.val)
    ELSE Omitted

\* receipt.logs.filter(l => l.address === core.address)
BridgeLogsAll(r) == r.logs
BridgeLogs(r) == SelectSeq(r.logs, LAMBDA l : l.address = "core")

\* the contract method a payload is handed to: parseTransfer when it
\* starts with the byte 01, parseTransferWithPayload otherwise
DecodeMethodByThree(pl) ==
    IF pl.payloadID = 3 THEN "parseTransferWithPayload" ELSE "parseTransfer"
DecodeMethod(pl) ==
    IF pl.payloadID = 1 THEN "parseTransfer" ELSE "parseTransferWithPayload"

\* the contexts a decoded transfer is read with
DestContext(transfer) == ContextOf(transfer.toChain)
TokenContextDest(transfer) == ContextOf(transfer.toChain)
TokenContext(transfer) == ContextOf(transfer.tokenChain)
RelayerContextSource(transfer) == "Ethereum"
RelayerContext(transfer) == DestContext(transfer)

\* a task: the asynchronous callback of one core log
Task(st, log, err, msg) ==
    [st |-> st, log |-> log, method |-> DecodeMethod(log.payload),
     err |-> err, msg |-> msg]

\* the callback up to its first await: parseLog, then the contract query
Launch(log) ==
    IF log.wellFormed THEN Task("parse", log, "", NoMsg)
    ELSE Task("failed", log, "ParseLogError", NoMsg)

\* the callback between the contract's answer and the await of
\* parseAssetAddress: the contexts are looked up, the relayer payload read
AfterParse(t) ==
    LET transfer == t.log.payload
    IN  IF DestContext(transfer) = "unknown"
            \/ TokenContext(transfer) = "unknown"
            THEN Task("failed", t.log, "ChainNotFound", NoMsg)
        ELSE Task("asset", t.log, "", NoMsg)

\* the callback after parseAssetAddress: the recipient addresses are
\* parsed by the destination context and the message is put together
AfterAsset(t, gf, from) ==
    LET transfer == t.log.payload
        tokA == ParseAddressBy(TokenContext(transfer), transfer.tokenAddress)
        to == ParseAddressBy(DestContext(transfer), transfer.to)
        rp == ParseRelayerPayloadBy(RelayerContext(transfer), transfer.payload)
        rcp == ParseAddressBy(DestContext(transfer), rp.to)
    IN  IF ~tokA.ok THEN Task("failed", t.log, "InvalidAddress", NoMsg)
        ELSE IF t.method = "parseTransfer"
            THEN IF ~to.ok THEN Task("failed", t.log, "InvalidAddress", NoMsg)
                 ELSE Task("done", t.log, "",
                           Msg("basic", t.log, tokA.addr, to.addr, Absent,
                               NoRelayer, gf, from))
        ELSE IF ~to.ok \/ ~rcp.ok
            THEN Task("failed", t.log, "InvalidAddress", NoMsg)
        ELSE Task("done", t.log, "",
                  Msg("relayer", t.log, tokA.addr, rcp.addr, to.addr, rp,
                      gf, from))

\* what the bridge contract may answer to a decode query: it decodes the
\* payload its method is for; what it does with another is its own affair
ContractDecodes(method, pl) ==
    IF method = "parseTransfer" /\ pl.payloadID = 1 THEN {TRUE}
    ELSE IF method = "parseTransferWithPayload" /\ pl.payloadID = 3
        THEN {TRUE}
    ELSE BOOLEAN

\* Promise.all(parsedLogs): the results in the order of the logs
CollectedAsSettled(tasks, ord) == [i \in 1..Len(ord) |-> tasks[ord[i]].msg]
Collected(tasks, ord) == [i \in 1..Len(tasks) |-> tasks[i].msg]

\* the code after the receipt lookup when the provider has no receipt
OnNoReceiptEmpty == Parsed(<<>>)
OnNoReceipt == ParseErr("NoReceipt")

PQuery(call, i) == [call |-> call, log |-> i]

\* parseMessageFromTx(tx, chain) is called: the receipt is asked for
ParseBegin ==
    /\ ppc = "idle"
    /\ ppc' = "receipt"
    /\ ptrace' = Append(ptrace, PQuery("getTransactionReceipt", 0))
    /\ UNCHANGED <<receipt, pchain, gasFee, task, order, presult>>
    /\ UNCHANGED <<pipeVars, sideVars>>

\* the provider answers: without a receipt the call fails; with one the
\* gas fee is computed, the core logs are filtered and every callback runs
\* to its first await, in log order
ReceiptReply ==
    /\ ppc = "receipt"
    /\ IF ~receipt.found
          THEN /\ ppc' = "done"
               /\ presult' = OnNoReceipt
               /\ UNCHANGED <<gasFee, task, ptrace>>
          ELSE LET started == [i \in 1..Len(BridgeLogs(receipt)) |->
                                 Launch(BridgeLogs(receipt)[i])]
                   asked == SelectSeq(
                       [i \in 1..Len(started) |-> PQuery(started[i].method, i)],
                       LAMBDA q : started[q.log].st = "parse")
               IN  /\ ppc' = "decoding"
                   /\ gasFee' = GasFeeOf(receipt)
                   /\ task' = started
                   /\ ptrace' = ptrace \o asked
                   /\ UNCHANGED presult
    /\ UNCHANGED <<receipt, pchain, order>>
    /\ UNCHANGED <<pipeVars, sideVars>>

\* the bridge contract answers the decode query of log i
ParseReply(i) ==
    /\ ppc = "decoding"
    /\ task[i].st = "parse"
    /\ \E decodes \in ContractDecodes(task[i].method, task[i].log.payload) :
          task' = [task EXCEPT ![i] =
                     IF decodes THEN AfterParse(task[i])
                     ELSE Task("failed", task[i].log, "Reverted", NoMsg)]
    /\ UNCHANGED <<receipt, pchain, ppc, gasFee, order, ptrace, presult>>
    /\ UNCHANGED <<pipeVars, sideVars>>

\* the decode query of log i fails in the network
ParseReject(i) ==
    /\ ppc = "decoding"
    /\ task[i].st = "parse"
    /\ task' = [task EXCEPT ![i] =
                  Task("failed", task[i].log, "NetworkError", NoMsg)]
    /\ UNCHANGED <<receipt, pchain, ppc, gasFee, order, ptrace, presult>>
    /\ UNCHANGED <<pipeVars, sideVars>>

\* parseAssetAddress of log i settles and the callback runs to its end
AssetReply(i) ==
    /\ ppc = "decoding"
    /\ task[i].st = "asset"
    /\ task' = [task EXCEPT ![i] =
                  AfterAsset(task[i], gasFee, toChainName(pchain))]
    /\ order' = IF task'[i].st = "done" THEN Append(order, i) ELSE order
    /\ UNCHANGED <<receipt, pchain, ppc, gasFee, ptrace, presult>>
    /\ UNCHANGED <<pipeVars, sideVars>>

\* a collection that waits for every callback and keeps what succeeded
CollectPartial ==
    /\ ppc = "decoding"
    /\ \A i \in 1..Len(task) : task[i].st \in {"done", "failed"}
    /\ presult' = Parsed(SelectSeq(Collected(task, order),
                                   LAMBDA m : m.kind # "none"))
    /\ ppc' = "done"
    /\ UNCHANGED <<receipt, pchain, gasFee, task, order, ptrace>>
    /\ UNCHANGED <<pipeVars, sideVars>>

\* Promise.all settles: rejected as soon as one callback has failed,
\* fulfilled with every message once all have finished
Collect ==
    /\ ppc = "decoding"
    /\ \/ \E i \in 1..Len(task) :
             /\ task[i].st = "failed"
             /\ presult' = ParseErr(task[i].err)
       \/ /\ \A i \in 1..Len(task) : task[i].st = "done"
          /\ presult' = Parsed(Collected(task, order))
    /\ ppc' = "done"
    /\ UNCHANGED <<receipt, pchain, gasFee, task, order, ptrace>>
    /\ UNCHANGED <<pipeVars, sideVars>>

InitParse ==
    /\ InitPipe
    /\ hasSigner
    /\ balance["native"] = 0
    /\ receipt \in Receipts
    /\ pchain \in RefsOf("ethereum")
    /\ ppc = "idle"
    /\ gasFee = Omitted
    /\ task = <<>>
    /\ order = <<>>
    /\ ptrace = <<>>
    /\ presult = NoParse
    /\ InitNoSide

NextParse ==
    \/ ParseBegin
    \/ ReceiptReply
    \/ \E i \in 1..Len(task) : ParseReply(i)
    \/ \E i \in 1..Len(task) : ParseReject(i)
    \/ \E i \in 1..Len(task) : AssetReply(i)
    \/ Collect

SpecParse == InitParse /\ [][NextParse]_vars

\* ------------------------------------ formatAddress / parseAddress: calls
\* native EVM addresses: some leading zero bytes, then equal non-zero bytes
NativeAddrs ==
    {Rep(k, 0) \o Rep(AddrBytes - k, b) : k \in 0..AddrBytes, b \in {1, 2, 255}}

\* formatAddress(a) is called
FormatAddress ==
    /\ apc = "start"
    /\ aCanon' = formatAddress(aIn)
    /\ apc' = "formatted"
    /\ UNCHANGED <<aIn, aOut>>
    /\ UNCHANGED <<pipeVars, parseVars, prepVars, balVars, amtVars>>

\* parseAddress is called on what formatAddress returned
ParseAddress ==
    /\ apc = "formatted"
    /\ aCanon.ok
    /\ aOut' = parseAddress(aCanon.bytes)
    /\ apc' = "parsed"
    /\ UNCHANGED <<aIn, aCanon>>
    /\ UNCHANGED <<pipeVars, parseVars, prepVars, balVars, amtVars>>

InitAddr ==
    /\ InitPipe
    /\ hasSigner
    /\ balance["native"] = 0
    /\ InitNoParse /\ InitNoPrepare /\ InitNoBalance /\ InitNoAmount
    /\ aIn \in NativeAddrs
    /\ aCanon = [ok |-> FALSE, bytes |-> <<>>]
    /\ aOut = [ok |-> FALSE, addr |-> NoAddr]
    /\ apc = "start"

NextAddr == FormatAddress \/ ParseAddress

SpecAddr == InitAddr /\ [][NextAddr]_vars

\* -------------------------------------- prepareSend: the calls it builds
\* what createNonce() may return
Nonces == {0, 1}

PrepareInputs ==
    {[token |-> t, amount |-> n, chainId |-> c, recipient |-> "r", fee |-> f] :
        t \in {"native"} \cup TokenAddrs, n \in 0..MaxAmount,
        c \in {ChainIdOf["bsc"], ChainIdOf["solana"]}, f \in {0, 1}}

\* destContext.formatAddress(recipientAccount)
FormatRecipient(chainId, account) == <<ContextOf(chainId), account>>

\* the arguments of bridge.callStatic.wrapAndTransferETH / transferTokens
DryRunCall(in, nonce) ==
    IF in.token = "native"
        THEN BridgeCall("wrapAndTransferETH", "-", in.amount, in.chainId,
                        FormatRecipient(in.chainId, in.recipient), in.fee,
                        nonce)
    ELSE BridgeCall("transferTokens", in.token, in.amount, in.chainId,
                    FormatRecipient(in.chainId, in.recipient), in.fee, nonce)

\* the arguments of bridge.populateTransaction.wrapAndTransferETH /
\* transferTokens
PopulatedCall(in, nonce) ==
    IF in.token = "native"
        THEN BridgeCall("wrapAndTransferETH", "-", in.amount, in.chainId,
                        FormatRecipient(in.chainId, in.recipient), in.fee,
                        nonce)
    ELSE BridgeCall("transferTokens", in.token, in.amount, in.chainId,
                    FormatRecipient(in.chainId, in.recipient), in.fee, nonce)

\* await bridge.callStatic.<method>(..., createNonce(), ...): passes
PrepareDryRun ==
    /\ pspc = "start"
    /\ \E n \in Nonces : psSim' = DryRunCall(psIn, n)
    /\ pspc' = "simulated"
    /\ UNCHANGED <<psIn, psTx>>
    /\ UNCHANGED <<pipeVars, parseVars, addrVars, balVars, amtVars>>

\* the dry-run reverts and prepareSend ends with its error
PrepareDryRunFails ==
    /\ pspc = "start"
    /\ \E n \in Nonces : psSim' = DryRunCall(psIn, n)
    /\ pspc' = "failed"
    /\ UNCHANGED <<psIn, psTx>>
    /\ UNCHANGED <<pipeVars, parseVars, addrVars, balVars, amtVars>>

\* return bridge.populateTransaction.<method>(..., createNonce(), ...)
PreparePopulate ==
    /\ pspc = "simulated"
    /\ \E n \in Nonces : psTx' = PopulatedCall(psIn, n)
    /\ pspc' = "done"
    /\ UNCHANGED <<psIn, psSim>>
    /\ UNCHANGED <<pipeVars, parseVars, addrVars, balVars, amtVars>>

InitPrepare ==
    /\ InitPipe
    /\ hasSigner
    /\ balance["native"] = 0
    /\ InitNoParse /\ InitNoAddr /\ InitNoBalance /\ InitNoAmount
    /\ psIn \in PrepareInputs
    /\ psSim = NoBridgeCall
    /\ psTx = NoBridgeCall
    /\ pspc = "start"

NextPrepare == PrepareDryRun \/ PrepareDryRunFails \/ PreparePopulate

SpecPrepare == InitPrepare /\ [][NextPrepare]_vars

\* ------------------------------------------- FromInputs: balance effect
\* most selections made and most amounts entered
MaxSelects == 2
MaxEdits == 3

Selections ==
    [network : {"", "ethereum", "bsc"}, token : {"", "ETH", "USDC"},
     wallet : {"", "0xA"}]

\* !fromNetwork || !tokenConfig || !wallet.address
Incomplete(sel) == sel.network = "" \/ sel.token = "" \/ sel.wallet = ""

\* tokenConfig.tokenId: a token has one, the native coin has none
HasTokenId(sel) == sel.token = "USDC"

\* what the wallet's balance query answers for a selection: null for a
\* token without a foreign asset on the network, else an amount
BalanceAnswer(sel) ==
    CASE sel.network = "bsc" /\ sel.token = "USDC" -> "null"
      [] sel.network = "bsc" -> "3"
      [] sel.token = "USDC" -> "2"
      [] OTHER -> "1"

\* formatBalance(fromNetwork, tokenConfig, res)[tokenConfig.key] || undefined
FormatShown(res) == IF res = "null" THEN "undefined" ELSE res

BalReq(i, sel) ==
    [id |-> i, sel |-> sel,
     call |-> IF HasTokenId(sel) THEN "getTokenBalance"
              ELSE "getNativeBalance"]

\* the network, the token or the wallet changes and the effect runs: an
\* incomplete selection clears the shown balance, a complete one asks for
\* the balance
SelectFrom ==
    /\ selects < MaxSelects
    /\ \E sel \in Selections \ {fromSelection} :
          /\ fromSelection' = sel
          /\ IF Incomplete(sel)
                THEN /\ uiBalance' = Balance(sel, "undefined")
                     /\ UNCHANGED balReqs
             ELSE /\ balReqs' = balReqs \cup {BalReq(selects + 1, sel)}
                  /\ UNCHANGED uiBalance
    /\ selects' = selects + 1
    /\ UNCHANGED storeBalance
    /\ UNCHANGED <<pipeVars, parseVars, addrVars, prepVars, amtVars>>

\* the then-callback of a balance request runs with the network and token
\* of the render that asked
BalanceReply(r) ==
    /\ r \in balReqs
    /\ balReqs' = balReqs \ {r}
    /\ uiBalance' = Balance(r.sel, FormatShown(BalanceAnswer(r.sel)))
    /\ storeBalance' = Balance(r.sel, BalanceAnswer(r.sel))
    /\ UNCHANGED <<fromSelection, selects>>
    /\ UNCHANGED <<pipeVars, parseVars, addrVars, prepVars, amtVars>>

InitBalance ==
    /\ InitPipe
    /\ hasSigner
    /\ balance["native"] = 0
    /\ InitNoParse /\ InitNoAddr /\ InitNoPrepare /\ InitNoAmount
    /\ InitNoBalance

NextBalance == SelectFrom \/ \E r \in balReqs : BalanceReply(r)

SpecBalance == InitBalance /\ [][NextBalance]_vars

\* ------------------------------------- FromInputs: handleAmountChange
\* r.computeReceiveAmount(route, amount, {toNativeToken}): the amount less
\* what the route keeps
ComputeReceiveAmount(n) == IF n > 1 THEN n - 1 ELSE 0

RxReq(i, amt) == [id |-> i, amt |-> amt]

\* handleAmountChange(amount) up to its await: the amount is stored and
\* the receive amount is asked for
EnterAmount ==
    /\ edits < MaxEdits
    /\ \E n \in 0..MaxAmount :
          /\ uiAmount' = Amount(n)
          /\ rxReqs' = rxReqs \cup {RxReq(edits + 1, Amount(n))}
    /\ edits' = edits + 1
    /\ UNCHANGED receiveAmount
    /\ UNCHANGED <<pipeVars, parseVars, addrVars, prepVars, balVars>>

\* handleAmountChange after its await: the receive amount is stored
ReceiveReply(r) ==
    /\ r \in rxReqs
    /\ rxReqs' = rxReqs \ {r}
    /\ receiveAmount' = Receive(r.amt, ComputeReceiveAmount(r.amt.val))
    /\ UNCHANGED <<uiAmount, edits>>
    /\ UNCHANGED <<pipeVars, parseVars, addrVars, prepVars, balVars>>

InitAmount ==
    /\ InitPipe
    /\ hasSigner
    /\ balance["native"] = 0
    /\ InitNoParse /\ InitNoAddr /\ InitNoPrepare /\ InitNoBalance
    /\ InitNoAmount

NextAmount == EnterAmount \/ \E r \in rxReqs : ReceiveReply(r)

SpecAmount == InitAmount /\ [][NextAmount]_vars

\* ------------------------------------------------------------ properties
Idx(tr) == 1..Len(tr)
SendCalls == TransferCalls \cup WrapCalls
IsTx(e, cs) == e.kind = "tx" /\ e.call \in cs
TxIdx(tr, cs) == {i \in Idx(tr) : IsTx(tr[i], cs)}
AsTx(e) == Call(e.call, e.to, e.token, e.amt, e.vaa)
Running(p) == pc[p] # "idle"
Ended(p) == pc[p] = "done"
\* the target the caller of approve asked for
RequestedTarget(amount) ==
    IF amount.kind = "omitted" THEN MaxUint256 ELSE amount.val

\* C1: in send, sendWithRelay and sendWithPayload of a non-native token, a
\* transfer is submitted only after the approval: when the allowance at
\* the start of the call is below the amount, exactly one approval for
\* that amount, to the contract and of the token of the transfer, was sent
\* and confirmed before it; when the allowance suffices, the transfer is
\* the only transaction of the call.
C1_ApproveBeforeTransfer ==
    \A p \in Procs :
        LET a == args[p]
            tr == trace[p]
            appr == TxIdx(tr, {"approve"})
        IN (a.op \in {"send", "sendWithRelay", "sendWithPayload"}
                /\ a.token # NATIVE) =>
            \A j \in TxIdx(tr, TransferCalls) :
                IF snap[p].allowance[tr[j].token][tr[j].to] < a.amount.val
                    THEN /\ Cardinality(appr) = 1
                         /\ \A i \in appr :
                              /\ i < j
                              /\ tr[i].amt = a.amount.val
                              /\ tr[i].to = tr[j].to
                              /\ tr[i].token = tr[j].token
                              /\ \E k \in Idx(tr) :
                                    /\ i < k /\ k < j
                                    /\ tr[k] = Ev("wait", AsTx(tr[i]))
                ELSE TxIdx(tr, SendCalls \cup {"approve"}) = {j}

\* a send of a bridged token ended well after one approval and one transfer
C1_Witness ==
    /\ Ended(Caller)
    /\ args[Caller].op = "send"
    /\ args[Caller].token = TokB
    /\ args[Caller].amount.val > 0
    /\ result[Caller].status = "ok"
    /\ Cardinality(TxIdx(trace[Caller], {"approve"})) = 1
    /\ Cardinality(TxIdx(trace[Caller], TransferCalls)) = 1

\* C2: in send, native or token, a transfer is submitted only after a
\* dry-run of the same method, token and amount passed (the nonces of the
\* two calls are not compared here); once a dry-run failed the call
\* ended with the failure and without a transfer, and an approval
\* confirmed before it is still on chain.
C2_DryRunBeforeSend ==
    \A p \in Procs :
        LET tr == trace[p]
        IN args[p].op = "send" =>
            /\ \A j \in TxIdx(tr, SendCalls) :
                  \E i \in Idx(tr) : i < j /\ tr[i] = Ev("sim", AsTx(tr[j]))
            /\ (\E i \in Idx(tr) : tr[i].kind = "simfail") =>
                  /\ TxIdx(tr, SendCalls) = {}
                  /\ Ended(p)
                  /\ result[p] = Err("SimulationFailed")
                  /\ \A k \in Idx(tr) :
                        (tr[k].kind = "wait" /\ tr[k].call = "approve") =>
                            allowance[tr[k].token][tr[k].to] = tr[k].amt

\* a send whose approval was confirmed and whose dry-run then failed
C2_Witness ==
    /\ Ended(Caller)
    /\ args[Caller].op = "send"
    /\ result[Caller] = Err("SimulationFailed")
    /\ \E k \in Idx(trace[Caller]) :
          trace[Caller][k].kind = "wait" /\ trace[Caller][k].call = "approve"

\* C3: in sendWithRelay, a relay transfer is submitted only after a
\* dry-run of that transfer against the relayer contract passed.
C3_RelayDryRunBeforeSend ==
    \A p \in Procs :
        LET tr == trace[p]
        IN args[p].op = "sendWithRelay" =>
            \A j \in TxIdx(tr, SendCalls) :
                \E i \in Idx(tr) : i < j /\ tr[i] = Ev("sim", AsTx(tr[j]))

\* C4: approve, send, sendWithPayload, sendWithRelay and redeem without a
\* signer end with a no-signer error before any round trip was made.
C4_NoSignerBeforeNetwork ==
    \A p \in Procs :
        (/\ Running(p)
         /\ ~hasSigner
         /\ args[p].op \in {"approve", "send", "sendWithPayload",
                            "sendWithRelay", "redeem"}) =>
            /\ Ended(p)
            /\ result[p].status = "error"
            /\ result[p].err \in {"NoSigner", "UnsupportedOperation"}
            /\ trace[p] = <<>>

\* C5: approve ends well with the allowance query as its first round trip
\* and with an approval transaction sent if and only if the allowance read
\* is below the target asked for (the amount given, the maximum if none).
C5_ApproveIffInsufficient ==
    \A p \in Procs :
        (Ended(p) /\ args[p].op = "approve" /\ result[p].status = "ok") =>
            /\ trace[p][1].kind = "query" /\ trace[p][1].call = "allowance"
            /\ TxIdx(trace[p], {"approve"}) # {} <=>
                   approved[p] < RequestedTarget(args[p].amount)

\* C6: of two successive approve calls with the same arguments, the first
\* beginning with the allowance below the target, the first sends the one
\* approval and the second sends none.
C6_SecondApproveSendsNothing ==
    \A p \in Procs :
        (/\ Ended(p)
         /\ args[p].op = "approve"
         /\ result[p].status = "ok"
         /\ prev.args = args[p]
         /\ prev.ok
         /\ prev.allowance0 < RequestedTarget(args[p].amount)) =>
            /\ prev.approveTxs = 1
            /\ \A i \in Idx(trace[p]) : trace[p][i].kind # "tx"

\* the second of two equal approve calls ended, the first having approved
C6_Witness ==
    /\ Ended(Caller)
    /\ args[Caller].op = "approve"
    /\ result[Caller].status = "ok"
    /\ prev.args = args[Caller]
    /\ prev.ok
    /\ prev.approveTxs = 1
    /\ prev.allowance0 < RequestedTarget(args[Caller].amount)

\* C7: when approve ends well the allowance of the spender is at least
\* the amount asked for, and is MaxUint256 when no amount was given.
C7_AllowanceAfterApprove ==
    \A p \in Procs :
        (Ended(p) /\ args[p].op = "approve" /\ result[p].status = "ok") =>
            LET now == allowance[args[p].tokenAddr][args[p].spender]
            IN /\ now >= args[p].amount.val
               /\ args[p].amount.kind = "omitted" => now = MaxUint256

\* an approve without an amount ended well after sending its approval
C7_Witness ==
    /\ Ended(Caller)
    /\ args[Caller].op = "approve"
    /\ args[Caller].amount = Omitted
    /\ result[Caller].status = "ok"
    /\ TxIdx(trace[Caller], {"approve"}) # {}

\* C8: in redeem the completion is submitted only after its dry-run
\* passed; a redeem of an attestation that is invalid, or that the bridge
\* had completed when the call began, ends in an error with nothing sent.
C8_RedeemDryRunFirst ==
    \A p \in Procs :
        LET tr == trace[p]
            v == args[p].vaa
        IN args[p].op = "redeem" =>
            /\ \A j \in TxIdx(tr, {"completeTransfer"}) :
                  \E i \in Idx(tr) : i < j /\ tr[i] = Ev("sim", AsTx(tr[j]))
            /\ (\E i \in Idx(tr) : tr[i].kind = "simfail") =>
                  TxIdx(tr, {"completeTransfer"}) = {}
            /\ (~v.valid \/ snap[p].processed[VaaHash(v)] > 0) =>
                  /\ TxIdx(tr, {"completeTransfer"}) = {}
                  /\ Ended(p) => result[p].status = "error"

\* a redeem of an invalid attestation ended on its failed dry-run
C8_Witness ==
    /\ Ended(Caller)
    /\ args[Caller].op = "redeem"
    /\ ~args[Caller].vaa.valid
    /\ result[Caller] = Err("SimulationFailed")
    /\ Len(trace[Caller]) = 1
    /\ trace[Caller][1].kind = "simfail"

\* C9: the bridge completes an attestation at most once; a redeem begun
\* after the attestation was completed sends no completion, and
\* isTransferCompleted then answers true.
C9_RedeemRetryIdempotent ==
    /\ \A h \in DOMAIN processed : processed[h] <= 1
    /\ \A p \in Procs :
        LET h == VaaHash(args[p].vaa)
        IN /\ (args[p].op = "redeem" /\ snap[p].processed[h] > 0) =>
                  TxIdx(trace[p], {"completeTransfer"}) = {}
           /\ (/\ args[p].op = "isTransferCompleted"
               /\ Ended(p)
               /\ result[p].status = "ok"
               /\ snap[p].processed[h] > 0) => result[p].val = "true"

\* a redeem of an attestation redeemed by the call before it ended
C9_Witness ==
    /\ Ended(Caller)
    /\ args[Caller].op = "redeem"
    /\ args[Caller].vaa.valid
    /\ snap[Caller].processed[VaaHash(args[Caller].vaa)] = 1
    /\ result[Caller] = Err("SimulationFailed")

\* C10: getForeignAsset for the home chain of the token, named or
\* numbered, returns the address of the token id with no round trip made.
C10_HomeChainShortCircuit ==
    \A p \in Procs :
        (/\ Running(p)
         /\ args[p].op = "getForeignAsset"
         /\ args[p].chain \in RefsOf(args[p].token.chain)) =>
            /\ Ended(p)
            /\ result[p] = Ok(args[p].token.address)
            /\ trace[p] = <<>>

\* getForeignAsset answered for the home chain given by its numeric id
C10_Witness ==
    /\ Ended(Caller)
    /\ args[Caller].op = "getForeignAsset"
    /\ args[Caller].chain = ById(ChainIdOf[args[Caller].token.chain])
    /\ result[Caller] = Ok(args[Caller].token.address)

\* the chain a reference denotes, and what the bridge of that chain holds
\* for a token
Denoted(ref) == CHOOSE n \in ChainNames : ref \in RefsOf(n)
IsHome(a) == a.chain \in RefsOf(a.token.chain)
Reported(a) ==
    wrappedAsset(Denoted(a.chain), ChainIdOf[a.token.chain], a.token.address)
Unregistered(a) ==
    a.token # NATIVE /\ ~IsHome(a) /\ Reported(a) = AddressZero
Failed(p) ==
    Len(trace[p]) > 0 /\ trace[p][Len(trace[p])].kind = "failed"

\* C11: getForeignAsset for a chain other than the home chain ends, when
\* its bridge query was answered, well: with null exactly if the bridge
\* reported the zero address, else with the reported address; when the
\* query failed it ends with that error, not with null.
C11_NullOnlyWhenUnregistered ==
    \A p \in Procs :
        (Ended(p) /\ args[p].op = "getForeignAsset" /\ ~IsHome(args[p])) =>
            IF Failed(p) THEN result[p] = Err("NetworkError")
            ELSE /\ result[p].status = "ok"
                 /\ result[p].val = "null" <=>
                        Reported(args[p]) = AddressZero
                 /\ result[p].val # "null" =>
                        result[p].val = Reported(args[p])

\* getForeignAsset ended with null after the bridge reported no asset
C11_Witness ==
    /\ Ended(Caller)
    /\ args[Caller].op = "getForeignAsset"
    /\ args[Caller].token = TokU
    /\ Len(trace[Caller]) = 1
    /\ trace[Caller][1].call = "wrappedAsset"
    /\ result[Caller] = Ok("null")

DependentOps == {"send", "sendWithRelay", "sendWithPayload", "prepareSend",
                 "prepareSendWithRelay", "getRelayerFee",
                 "calculateMaxSwapAmount", "calculateNativeTokenAmt"}

\* C12: mustGetForeignAsset ends well only with the address
\* getForeignAsset finds (the token's own on its home chain, the reported
\* one elsewhere), never with null, and ends with the not-registered error
\* when the bridge reported none; a method that depends on it, called for
\* a token not registered on the chain, ends in an error without an
\* allowance query, approval, dry-run, transaction or relayer query.
C12_MustGetForeignAsset ==
    \A p \in Procs :
        LET a == args[p]
        IN /\ (Ended(p) /\ a.op = "mustGetForeignAsset") =>
                /\ result[p].status = "ok" =>
                      /\ result[p].val \notin {"null", AddressZero}
                      /\ result[p].val = IF IsHome(a) THEN a.token.address
                                         ELSE Reported(a)
                /\ (Unregistered(a) /\ ~Failed(p)) =>
                      result[p] = Err("token not registered")
           /\ (a.op \in DependentOps /\ Unregistered(a)) =>
                /\ \A i \in Idx(trace[p]) :
                      \/ trace[p][i].kind = "failed"
                      \/ /\ trace[p][i].kind = "query"
                         /\ trace[p][i].call \in
                                {"wrappedAsset", "getAssociatedTokenAddress"}
                /\ Ended(p) => result[p].status = "error"

\* a send of a token never bridged to the sending chain ended with the
\* not-registered error after the bridge query alone
C12_Witness ==
    /\ Ended(Caller)
    /\ args[Caller].op = "send"
    /\ args[Caller].token = TokU
    /\ hasSigner
    /\ Len(trace[Caller]) = 1
    /\ trace[Caller][1].call = "wrappedAsset"
    /\ result[Caller] = Err("token not registered")

\* C13: getTokenBalance for a token not registered on the chain ends with
\* null and asks no token contract for a balance; otherwise, ending well,
\* it returns the balance held at the resolved token address.
C13_BalanceOfRegisteredOnly ==
    \A p \in Procs :
        LET a == args[p]
            tr == trace[p]
            asked == {i \in Idx(tr) : tr[i].call = "balanceOf"}
            resolved == IF IsHome(a) THEN a.token.address ELSE Reported(a)
        IN a.op = "getTokenBalance" =>
            IF Unregistered(a)
                THEN /\ asked = {}
                     /\ (Ended(p) /\ ~Failed(p)) => result[p] = Ok("null")
            ELSE /\ \A i \in asked : tr[i].token = resolved
                 /\ (Ended(p) /\ result[p].status = "ok") =>
                        /\ asked # {}
                        /\ result[p].val = ToString(balance[resolved])

\* getTokenBalance of an unregistered token ended with null
C13_Witness ==
    /\ Ended(Caller)
    /\ args[Caller].op = "getTokenBalance"
    /\ args[Caller].token = TokU
    /\ result[Caller] = Ok("null")
    /\ Len(trace[Caller]) = 1

\* --------------------------------------- properties of parseMessageFromTx
TaskIdx == 1..Len(task)
Discriminant(i) == task[i].log.payload.payloadID
\* the queries the parse call made for core log i
AskedFor(i) == {k \in 1..Len(ptrace) : ptrace[k].log = i}
ParseEnded == ppc = "done"

\* C14: a payload whose discriminant is neither 1 nor 3 is a hard error:
\* it is never decoded, neither into a pending transfer nor into a message
\* of the result.
C14_UnrecognizedDiscriminantIsError ==
    /\ \A i \in TaskIdx :
          Discriminant(i) \notin {1, 3} => task[i].st \notin {"asset", "done"}
    /\ \A k \in 1..Len(presult.msgs) : presult.msgs[k].payloadID \in {1, 3}

\* C15: the decoding branches on payload byte 0: discriminant 1 is asked of
\* parseTransfer and gives a basic message without relayer fields; every
\* other discriminant is asked of parseTransferWithPayload and gives a
\* relayer message with the trailing payload and the relayer's fields.
C15_BranchOnDiscriminant ==
    \A i \in TaskIdx :
        LET t == task[i]
            m == t.msg
            trailing == t.log.payload.payload
        IN  /\ \A k \in AskedFor(i) :
                  ptrace[k].call = IF Discriminant(i) = 1 THEN "parseTransfer"
                                   ELSE "parseTransferWithPayload"
            /\ t.st = "done" =>
                  IF Discriminant(i) = 1
                      THEN /\ m.kind = "basic"
                           /\ m.to = Absent
                           /\ m.payload = NoTrailing
                           /\ m.relayer = NoRelayer
                  ELSE /\ m.kind = "relayer"
                       /\ m.payload = trailing
                       /\ m.relayer.relayerPayloadId = trailing.id
                       /\ m.relayer.relayerFee = trailing.fee
                       /\ m.relayer.toNativeTokenAmount = trailing.native

\* a receipt with a basic and a relayed transfer was parsed into a basic
\* and a relayer message
C15_Witness ==
    /\ ParseEnded
    /\ presult.status = "ok"
    /\ Len(presult.msgs) = 2
    /\ presult.msgs[1].kind = "basic" /\ presult.msgs[1].payloadID = 1
    /\ presult.msgs[2].kind = "relayer" /\ presult.msgs[2].payloadID = 3

\* the place in the receipt of its k-th log of the core contract
CoreAt(k) ==
    CHOOSE j \in 1..Len(receipt.logs) :
        /\ receipt.logs[j].address = "core"
        /\ Cardinality({h \in 1..j : receipt.logs[h].address = "core"}) = k
CoreCount ==
    Cardinality({j \in 1..Len(receipt.logs) :
                    receipt.logs[j].address = "core"})

\* C16: a parse that ends well returns one message per log of the core
\* contract, in the order of those logs in the receipt whatever the order
\* in which the decodings finished; logs of other contracts give nothing;
\* a receipt without a core log gives the empty sequence, not an error.
C16_ResultsInLogOrder ==
    (ParseEnded /\ receipt.found) =>
        /\ presult.status = "ok" =>
              /\ Len(presult.msgs) = CoreCount
              /\ \A k \in 1..Len(presult.msgs) :
                    /\ presult.msgs[k].sequence =
                           receipt.logs[CoreAt(k)].sequence
                    /\ presult.msgs[k].amount =
                           BN(receipt.logs[CoreAt(k)].payload.amount)
        /\ CoreCount = 0 => presult = Parsed(<<>>)

\* two core logs were decoded, the second finishing first, and the result
\* has the first log's message first
C16_Witness ==
    /\ ParseEnded
    /\ presult.status = "ok"
    /\ order = <<2, 1>>
    /\ Len(presult.msgs) = 2
    /\ presult.msgs[1].sequence = receipt.logs[1].sequence
    /\ presult.msgs[1].sequence # presult.msgs[2].sequence

\* the native rendering of a canonical address on a chain: its last 20
\* bytes on an EVM chain, all of it on Solana
NativeOn(chainId, canon) ==
    IF chainId = SolId THEN [fmt |-> "Solana", bytes |-> canon]
    ELSE [fmt |-> "Ethereum",
          bytes |-> SubSeq(canon, CanonBytes - AddrBytes + 1, CanonBytes)]
NameOfId(chainId) == CHOOSE n \in ChainNames : ChainIdOf[n] = chainId

\* C17: the token address of a message is the payload's token address as
\* the context of the token's home chain (the payload's tokenChain)
\* renders it, never as the destination's does; tokenId pairs that chain
\* with that address; the pass-through recipient is rendered by the
\* destination chain's context.
C17_TokenByHomeContext ==
    \A i \in TaskIdx :
        LET pl == task[i].log.payload
            m == task[i].msg
            passThrough == IF m.kind = "basic" THEN m.recipient ELSE m.to
        IN  task[i].st = "done" =>
              /\ m.tokenAddress = NativeOn(pl.tokenChain, pl.tokenAddress)
              /\ m.tokenChain = NameOfId(pl.tokenChain)
              /\ m.tokenId = [chain |-> NameOfId(pl.tokenChain),
                              address |-> m.tokenAddress]
              /\ passThrough = NativeOn(pl.toChain, pl.to)

\* a message was decoded whose token lives on an EVM chain and whose
\* destination is Solana
C17_Witness ==
    \E i \in TaskIdx :
        /\ task[i].st = "done"
        /\ task[i].log.payload.tokenChain = EthId
        /\ task[i].log.payload.toChain = SolId
        /\ task[i].msg.tokenAddress.fmt = "Ethereum"
        /\ task[i].msg.recipient.fmt = "Solana"

\* C18: the trailing relayer payload is read by the context of the
\* destination chain, not of the source; recipient is the relayer
\* payload's final recipient and to the transfer's pass-through recipient,
\* both rendered for the destination; the fee and the native amount are
\* the relayer payload's.
C18_RelayerByDestContext ==
    \A i \in TaskIdx :
        LET pl == task[i].log.payload
            m == task[i].msg
        IN  (task[i].st = "done" /\ m.kind = "relayer") =>
              /\ m.relayer.by = ContextOf(pl.toChain)
              /\ m.recipient = NativeOn(pl.toChain, pl.payload.to)
              /\ m.to = NativeOn(pl.toChain, pl.to)
              /\ m.relayer.relayerFee = pl.payload.fee
              /\ m.relayer.toNativeTokenAmount = pl.payload.native

\* a relayed transfer to Solana, sent from an EVM chain, was decoded and
\* its final recipient differs from its pass-through recipient
C18_Witness ==
    \E i \in TaskIdx :
        /\ task[i].st = "done"
        /\ task[i].msg.kind = "relayer"
        /\ task[i].log.payload.toChain = SolId
        /\ task[i].msg.relayer.by = "Solana"
        /\ task[i].msg.recipient # task[i].msg.to

\* C19: the gas fee of every message is gasUsed times effectiveGasPrice
\* when the receipt has both, a zero among them included, and absent when
\* the receipt lacks either.
C19_GasFee ==
    LET both == /\ receipt.gasUsed.kind = "BigNumber"
                /\ receipt.effectiveGasPrice.kind = "BigNumber"
        fee == IF both
                   THEN BN(receipt.gasUsed.val * receipt.effectiveGasPrice.val)
               ELSE Omitted
    IN  /\ \A i \in TaskIdx : task[i].st = "done" => task[i].msg.gasFee = fee
        /\ \A k \in 1..Len(presult.msgs) : presult.msgs[k].gasFee = fee

\* a message came back with a gas fee of zero from a receipt whose gas
\* price is zero
C19_Witness ==
    /\ ParseEnded
    /\ receipt.gasUsed = BN(MaxGas)
    /\ receipt.effectiveGasPrice = BN(0)
    /\ Len(presult.msgs) > 0
    /\ presult.msgs[1].gasFee = BN(0)

\* a message came back without a gas fee from a receipt without a gas price
C19_WitnessAbsent ==
    /\ ParseEnded
    /\ receipt.gasUsed = BN(MaxGas)
    /\ receipt.effectiveGasPrice = Omitted
    /\ Len(presult.msgs) > 0
    /\ presult.msgs[1].gasFee = Omitted

\* C20: when the provider has no receipt the parse fails with the
\* receipt-not-found error after the one lookup: nothing else is asked, no
\* log is decoded and no message sequence comes back.
C20_NoReceiptFailsAtOnce ==
    ~receipt.found =>
        /\ \A k \in 1..Len(ptrace) :
              k = 1 /\ ptrace[k].call = "getTransactionReceipt"
        /\ task = <<>>
        /\ presult.status # "ok"
        /\ ParseEnded => presult = ParseErr("NoReceipt")

\* a parse of a hash without receipt ended in the error after one lookup
C20_Witness ==
    /\ ParseEnded
    /\ ~receipt.found
    /\ presult.status = "error"
    /\ Len(ptrace) = 1

\* C21: for every native 20-byte EVM address, leading zero bytes or not,
\* parsing the formatted address succeeds and gives the address back.
C21_AddressRoundTrip ==
    apc = "parsed" => (aOut.ok /\ aOut.addr.bytes = aIn)

PipelineOps == {"send", "sendWithRelay", "sendWithPayload", "redeem",
                "approve"}
FailureKinds == {"failed", "simfail", "reverted"}
ErrorOf(kind) ==
    CASE kind = "failed" -> "NetworkError"
      [] kind = "simfail" -> "SimulationFailed"
      [] kind = "reverted" -> "Reverted"

\* C22: a pipeline operation is fail-stop: a step that failed is the last
\* step of the invocation, the invocation has ended with that step's
\* error, and nothing was asked again after it.
C22_FailStop ==
    \A p \in Procs :
        \A i \in Idx(trace[p]) :
            (args[p].op \in PipelineOps /\ trace[p][i].kind \in FailureKinds)
                => /\ i = Len(trace[p])
                   /\ Ended(p)
                   /\ result[p] = Err(ErrorOf(trace[p][i].kind))

\* a send of a token ended in the dry-run's failure after its approval
\* was mined, and submitted no transfer
C22_Witness ==
    /\ args[Caller].op = "send"
    /\ Ended(Caller)
    /\ result[Caller] = Err("SimulationFailed")
    /\ \E i \in Idx(trace[Caller]) :
          trace[Caller][i].kind = "wait" /\ trace[Caller][i].call = "approve"
    /\ trace[Caller][Len(trace[Caller])].kind = "simfail"

PrepareOps == {"prepareSend", "prepareSendWithRelay", "prepareRedeem"}

\* C23: prepareSend, prepareSendWithRelay and prepareRedeem only build a
\* transaction: no step of such a call changes a balance, an allowance or
\* the processed attestations, and its round trips hold no submission.
C23_PrepareDispatchesNothing ==
    [][\A p \in Procs :
          args'[p].op \in PrepareOps =>
              /\ UNCHANGED chainVars
              /\ \A i \in Idx(trace'[p]) :
                    trace'[p][i].kind \notin {"tx", "wait", "reverted"}]_vars

\* prepareSend of a token returned the transfer it built after a dry-run
\* that passed, and the allowance is the one the call began with
C23_Witness ==
    /\ args[Caller].op = "prepareSend"
    /\ Ended(Caller)
    /\ result[Caller] = Ok("tx")
    /\ tx[Caller].call = "transferTokens"
    /\ allowance = snap[Caller].allowance
    /\ \E i \in Idx(trace[Caller]) : trace[Caller][i].kind = "sim"

\* C24: in prepareSend the dry-run and the transaction returned for
\* submission carry the same arguments: method, token address, amount,
\* recipient chain id, formatted recipient, relayer fee and nonce, on the
\* native and on the token path.
C24_DryRunExactParameters ==
    pspc = "done" => psSim = psTx

\* C25: when two sends of one wallet and token interleave, the transfer of
\* each is dry-run and submitted under an allowance of at least its own
\* amount.
C25_ConcurrentSendsKeepAllowance ==
    \A p \in Procs :
        (args[p].op = "send" /\ pc[p] \in {"simulate", "submit", "wait"}
            /\ tx[p].call \in TransferCalls)
            => allowance[tx[p].token][tx[p].to] >= tx[p].amt

\* C26: approve called with an amount, zero included, never sends an
\* approval of more than that amount; the maximum is approved only when
\* the amount is omitted.
C26_ApproveAtMostAmount ==
    \A p \in Procs :
        \A i \in TxIdx(trace[p], {"approve"}) :
            (args[p].op = "approve" /\ args[p].amount.kind # "omitted")
                => trace[p][i].amt <= args[p].amount.val

\* the contract a send method submits its transfer through
TransferContract(op) == IF op = "sendWithRelay" THEN "relayer" ELSE "bridge"

\* C27: in send, sendWithPayload and sendWithRelay of a non-native token
\* the approval goes to the contract the transfer is then submitted
\* through (the token bridge, for sendWithRelay the relayer) and is for
\* the token address the transfer is given.
C27_SpenderIsTransferContract ==
    \A p \in Procs :
        LET a == args[p]
            tr == trace[p]
        IN (a.op \in {"send", "sendWithPayload", "sendWithRelay"}
                /\ a.token # NATIVE) =>
            /\ \A i \in TxIdx(tr, {"approve"}) :
                  tr[i].to = TransferContract(a.op)
            /\ \A j \in TxIdx(tr, TransferCalls) :
                  /\ tr[j].to = TransferContract(a.op)
                  /\ \A i \in TxIdx(tr, {"approve"}) :
                        tr[i].token = tr[j].token
                  /\ \A i \in Idx(tr) :
                        tr[i].call = "allowance" =>
                            /\ tr[i].to = tr[j].to
                            /\ tr[i].token = tr[j].token

\* a sendWithRelay of a bridged token ended well: the relayer was approved
\* for the wrapped token and the transfer of it went through the relayer
C27_Witness ==
    /\ Ended(Caller)
    /\ args[Caller].op = "sendWithRelay"
    /\ args[Caller].token = TokB
    /\ result[Caller].status = "ok"
    /\ \E i \in TxIdx(trace[Caller], {"approve"}) :
          /\ trace[Caller][i].to = "relayer"
          /\ trace[Caller][i].token = "0xW1"
    /\ \E j \in TxIdx(trace[Caller], {"transferTokensWithRelay"}) :
          /\ trace[Caller][j].to = "relayer"
          /\ trace[Caller][j].token = "0xW1"

\* C28: parseMessageFromTx is all-or-nothing over a receipt: when the
\* decoding of a core log has failed (the contract's rejection, an unknown
\* chain id, an invalid address) the call ends in an error and returns no
\* message of the other logs; otherwise it returns as many messages as
\* the receipt has core logs.
C28_AllOrNothing ==
    (ParseEnded /\ receipt.found) =>
        IF \E i \in TaskIdx : task[i].st = "failed"
            THEN presult.status = "error" /\ presult.msgs = <<>>
        ELSE /\ presult.status = "ok"
             /\ Len(presult.msgs) = CoreCount
             /\ \A i \in TaskIdx : task[i].st = "done"

\* a parse ended in the error of one log's invalid address although the
\* other log's message had been decoded
C28_Witness ==
    /\ ParseEnded
    /\ presult = ParseErr("InvalidAddress")
    /\ \E i, j \in TaskIdx :
          /\ task[i].st = "done"
          /\ task[i].msg.kind # "none"
          /\ task[j].st = "failed"

\* C29: once every balance request is answered, the shown and the stored
\* balance are those of the latest selection of network, token and wallet,
\* and the shown one is undefined if that selection is incomplete: a late
\* answer for an earlier selection does not stay on display.
C29_BalanceOfLatestSelection ==
    (balReqs = {} /\ selects > 0) =>
        IF Incomplete(fromSelection) THEN uiBalance.text = "undefined"
        ELSE /\ uiBalance.text = FormatShown(BalanceAnswer(fromSelection))
             /\ storeBalance.text = BalanceAnswer(fromSelection)

\* C30: once every computeReceiveAmount call is answered, the stored
\* receive amount is the one computed from the send amount entered last: a
\* computation for an earlier amount that ends later does not stay.
C30_ReceiveOfLatestAmount ==
    (rxReqs = {} /\ edits > 0) =>
        receiveAmount.val = ComputeReceiveAmount(uiAmount.val)

====
